---- MODULE Spec2Model ----
(***************************************************************************)
(* A model of the Kiro executor (crates/executors/src/executors/kiro.rs)   *)
(* and of the Kiro setup route                                             *)
(* (crates/server/src/routes/task_attempts/kiro_setup.rs).                 *)
(*                                                                         *)
(* Six specifications share the module:                                    *)
(*   SpecLogs             normalize_logs and its two per-channel tasks     *)
(*   SpecLogsFair         the same with fewer items, every task scheduled  *)
(*   SpecChannel          stdout alone fed, with a record of the arrivals  *)
(*   SpecSpawn            spawn / spawn_follow_up, one call after another  *)
(*   SpecSetup            run_kiro_setup, one call after another           *)
(*   SpecSetupConcurrent  run_kiro_setup, the calls overlapping            *)
(* Each one leaves the variables of the other parts as they start.         *)
(***************************************************************************)
EXTENDS Integers, Sequences, FiniteSets, TLC

\* ------------------------------------------------------------------ bounds
MaxChunks == 4     \* items the two chunked streams deliver, all invocations together
MaxGen == 2        \* normalize_logs invocations on the same message store
MaxCalls == 2      \* spawn / spawn_follow_up calls
MaxSetupCalls == 3 \* run_kiro_setup calls
MaxFairChunks == 2 \* items delivered where the scheduling of the tasks is fair

\* ------------------------------------------------------- program constants
time_gap == 2      \* .time_gap(Duration::from_secs(2))

Channels == {"stdout", "stderr"}

\* A text is a sequence of tokens: ESC stands for one whole ANSI escape
\* sequence, a positive number for a run of printable characters.
ESC == 0

\* What the subprocess can put on a channel as its n-th item: an empty chunk,
\* a chunk of coloured text that no other chunk equals, or a failing read.
\* One item of a chunked stream is Ok(chunk) or Err(_).
Items(n) == {[ok |-> TRUE, text |-> <<>>],
             [ok |-> TRUE, text |-> <<ESC, n>>],
             [ok |-> FALSE, text |-> <<>>]}

VARIABLES
    \* ---- normalize_logs
    msg_store,        \* what was pushed to the MsgStore: session ids and patches
    next_index,       \* the counter of each EntryIndexProvider
    provider_of,      \* the provider each channel's processor was built with
    stream,           \* per channel: items the chunked stream has not yielded yet
    closed,           \* per channel: the stream has ended
    task,             \* per channel: "none", "read", "push", "done", "killed"
    buffer,           \* per channel: the processor's pending text
    since_chunk,      \* per channel: seconds since the processor last took a
                      \* chunk (now - last_chunk_arrival_time), counted up to time_gap
    patches,          \* per channel: patches process() returned, not yet pushed
    gen,              \* number of normalize_logs invocations so far
    quiet,            \* history: seconds since the channel's last item arrived,
                      \* counted up to time_gap + 1
    arrived,          \* history: items delivered per channel in this invocation,
                      \* each with the quiet time before it
    delivered,        \* history: number of items delivered so far
    \* ---- spawn / spawn_follow_up
    kiro,             \* the Kiro configuration: model and CmdOverrides
    session_dir,      \* current_dir/.kiro-sessions exists
    children,         \* subprocesses created so far
    call,             \* the call in progress or last returned
    calls,            \* number of calls started
    \* ---- run_kiro_setup
    unix,             \* cfg(unix)
    processes,        \* the execution_processes table, oldest first
    sessions,         \* the sessions table, oldest first
    container,        \* the workspace's container has been provisioned
    setup,            \* the run_kiro_setup call in progress or last returned
    setup_calls,      \* number of run_kiro_setup calls started
    prior             \* history: the table as it was before the first call

logVars == <<msg_store, next_index, provider_of, stream, closed, task, buffer,
             since_chunk, patches, gen, delivered, quiet, arrived>>
spawnVars == <<kiro, session_dir, children, call, calls>>
setupVars == <<unix, processes, sessions, container, setup, setup_calls, prior>>
vars == <<logVars, spawnVars, setupVars>>

\* ------------------------------------------------------------- text helpers
RECURSIVE Flatten(_)
Flatten(ss) == IF ss = <<>> THEN <<>> ELSE Head(ss) \o Flatten(Tail(ss))

\* strip_ansi_escapes::strip_str removes the escape sequences.
strip_str(s) == SelectSeq(s, LAMBDA t : t # ESC)

SetMax(S) == CHOOSE m \in S : \A x \in S : x <= m

\* =========================================================================
\* normalize_logs (kiro.rs 154-216)
\* =========================================================================
Providers == {"p", "q"}

NoText == [c \in Channels |-> <<>>]
Zero == [c \in Channels |-> 0]

\* msg_store.push_session_id(session_id)
SessionIdMsg(g) ==
    [kind |-> "session", gen |-> g, ch |-> "-", index |-> -1, content |-> <<>>,
     entry_type |-> "-", timestamp |-> "-", metadata |-> "-"]

IndicesOf(store) == {store[i].index : i \in {j \in DOMAIN store : store[j].kind = "entry"}}

\* EntryIndexProvider::start_from: one past the largest index of the entries
\* already in the store, 0 for a store without entries.
start_from(store) ==
    IF IndicesOf(store) = {} THEN 0 ELSE SetMax(IndicesOf(store)) + 1

\* let entry_index_provider = EntryIndexProvider::start_from(&msg_store);
SeedIndex == start_from(msg_store)

\* entry_index_provider.clone() for stdout, entry_index_provider itself for
\* stderr: both processors count on the one shared counter.
ProviderWiringOwn == [c \in Channels |-> IF c = "stdout" THEN "p" ELSE "q"]
ProviderWiring == [c \in Channels |-> "p"]

\* The two normalized_entry_producer closures.
EntryTypeOf(ch) == IF ch = "stdout" THEN "AssistantMessage" ELSE "SystemMessage"

normalized_entry_producer_stdout(ch, content) ==
    [timestamp |-> "None", entry_type |-> "AssistantMessage",
     content |-> strip_str(content), metadata |-> "None"]

normalized_entry_producer(ch, content) ==
    [timestamp |-> "None", entry_type |-> EntryTypeOf(ch),
     content |-> strip_str(content), metadata |-> "None"]

\* The patch that adds entry e at index i.
AddPatch(ch, i, e) ==
    [kind |-> "entry", gen |-> gen, ch |-> ch, index |-> i, content |-> e.content,
     entry_type |-> e.entry_type, timestamp |-> e.timestamp, metadata |-> e.metadata]

\* PlainTextLogProcessor::process(chunk), time-gap coalescing: an empty
\* fragment does nothing; a fragment that comes time_gap or more after the
\* previous one first flushes the pending buffer as one entry stamped with the
\* provider's next index; the fragment then joins the pending buffer.
\* The result: the new buffer, the patches, the number of indices taken.
process(ch, chunk) ==
    IF chunk = <<>>
    THEN [buffer |-> buffer[ch], since |-> since_chunk[ch], out |-> <<>>, took |-> 0]
    ELSE IF buffer[ch] # <<>> /\ since_chunk[ch] >= time_gap
    THEN [buffer |-> chunk, since |-> 0,
          out |-> <<AddPatch(ch, next_index[provider_of[ch]],
                             normalized_entry_producer(ch, buffer[ch]))>>,
          took |-> 1]
    ELSE [buffer |-> buffer[ch] \o chunk, since |-> 0, out |-> <<>>, took |-> 0]

\* fn normalize_logs: seed the provider, push the session id, spawn both tasks.
\* It is invoked for a store whose earlier tasks are gone (finished, or killed
\* with their process); each invocation reads fresh chunked streams.
normalize_logs_silent ==
    /\ gen < MaxGen
    /\ \A c \in Channels : task[c] \in {"none", "done", "killed"}
    /\ next_index' = [p \in Providers |-> SeedIndex]
    /\ provider_of' = ProviderWiring
    /\ gen' = gen + 1
    /\ task' = [c \in Channels |-> "read"]
    /\ buffer' = NoText
    /\ since_chunk' = Zero
    /\ patches' = NoText
    /\ stream' = NoText
    /\ closed' = [c \in Channels |-> FALSE]
    /\ UNCHANGED <<msg_store, delivered>>

normalize_logs ==
    /\ gen < MaxGen
    /\ \A c \in Channels : task[c] \in {"none", "done", "killed"}
    /\ next_index' = [p \in Providers |-> SeedIndex]
    /\ msg_store' = Append(msg_store, SessionIdMsg(gen + 1))
    /\ provider_of' = ProviderWiring
    /\ gen' = gen + 1
    /\ task' = [c \in Channels |-> "read"]
    /\ buffer' = NoText
    /\ since_chunk' = Zero
    /\ patches' = NoText
    /\ stream' = NoText
    /\ closed' = [c \in Channels |-> FALSE]
    /\ UNCHANGED delivered

\* while let Some(Ok(chunk)) = stream.next().await { processor.process(chunk) .. }
\* The stream yields its oldest item.
NextItem(ch) == Head(stream[ch])
RestItems(ch) == Tail(stream[ch])
NextItemNewest(ch) == stream[ch][Len(stream[ch])]
RestItemsNewest(ch) == SubSeq(stream[ch], 1, Len(stream[ch]) - 1)

\* The item is Some(Ok(chunk)): the loop body runs processor.process(chunk).
ReadChunkWith(ch, item, rest) ==
    /\ task[ch] = "read"
    /\ stream[ch] # <<>>
    /\ item.ok
    /\ LET r == process(ch, item.text) IN
        /\ buffer' = [buffer EXCEPT ![ch] = r.buffer]
        /\ since_chunk' = [since_chunk EXCEPT ![ch] = r.since]
        /\ patches' = [patches EXCEPT ![ch] = r.out]
        /\ next_index' = [next_index EXCEPT ![provider_of[ch]] = @ + r.took]
        /\ task' = [task EXCEPT ![ch] = IF r.out = <<>> THEN "read" ELSE "push"]
    /\ stream' = [stream EXCEPT ![ch] = rest]
    /\ UNCHANGED <<msg_store, provider_of, closed, gen, delivered>>

ReadChunkNewestFirst(ch) == ReadChunkWith(ch, NextItemNewest(ch), RestItemsNewest(ch))
ReadChunk(ch) == ReadChunkWith(ch, NextItem(ch), RestItems(ch))

\* The item is Some(Err(_)): the pattern Some(Ok(chunk)) does not match, the
\* loop ends and with it the task; the processor is dropped.
ReadErr(ch) ==
    /\ task[ch] = "read"
    /\ stream[ch] # <<>>
    /\ ~NextItem(ch).ok
    /\ stream' = [stream EXCEPT ![ch] = RestItems(ch)]
    /\ task' = [task EXCEPT ![ch] = "done"]
    /\ UNCHANGED <<msg_store, next_index, provider_of, closed, buffer, since_chunk,
                   patches, gen, delivered>>

\* The stream yields None: the loop ends and with it the task; the processor
\* is dropped.
ReadEndWaits(ch) ==
    /\ task[ch] = "read"
    /\ stream[ch] = <<>>
    /\ closed[ch]
    /\ UNCHANGED <<msg_store, next_index, provider_of, stream, closed, task, buffer,
                   since_chunk, patches, gen, delivered>>

ReadEnd(ch) ==
    /\ task[ch] = "read"
    /\ stream[ch] = <<>>
    /\ closed[ch]
    /\ task' = [task EXCEPT ![ch] = "done"]
    /\ UNCHANGED <<msg_store, next_index, provider_of, stream, closed, buffer,
                   since_chunk, patches, gen, delivered>>

\* for patch in .. { msg_store.push_patch(patch); }
PushPatch(ch) ==
    /\ task[ch] = "push"
    /\ msg_store' = Append(msg_store, Head(patches[ch]))
    /\ patches' = [patches EXCEPT ![ch] = Tail(@)]
    /\ task' = [task EXCEPT ![ch] = IF Tail(patches[ch]) = <<>> THEN "read" ELSE "push"]
    /\ UNCHANGED <<next_index, provider_of, stream, closed, buffer, since_chunk,
                   gen, delivered>>

\* ---- the environment of the tasks
\* The subprocess writes a chunk on a channel, or reading the channel fails.
Deliver(ch, item) ==
    /\ task[ch] # "none"
    /\ ~closed[ch]
    /\ delivered < MaxChunks
    /\ stream' = [stream EXCEPT ![ch] = Append(@, item)]
    /\ delivered' = delivered + 1
    /\ UNCHANGED <<msg_store, next_index, provider_of, closed, task, buffer,
                   since_chunk, patches, gen>>

\* The subprocess ends or closes the channel.
Close(ch) ==
    /\ task[ch] # "none"
    /\ ~closed[ch]
    /\ closed' = [closed EXCEPT ![ch] = TRUE]
    /\ UNCHANGED <<msg_store, next_index, provider_of, stream, task, buffer,
                   since_chunk, patches, gen, delivered>>

\* A task that can take a step takes it before a second goes by.
Busy(ch) ==
    \/ task[ch] = "push"
    \/ task[ch] = "read" /\ (stream[ch] # <<>> \/ closed[ch])

\* process() reads the time since the last chunk only of a live processor
\* whose buffer holds text: the count is kept for those alone.
Waiting(ch) == task[ch] = "read" /\ buffer[ch] # <<>>

UpTo(n, max) == IF n < max THEN n + 1 ELSE max

\* A second goes by.
Tick ==
    /\ \A c \in Channels : ~Busy(c)
    /\ \E c \in Channels : task[c] = "read"
    /\ since_chunk' = [c \in Channels |->
            IF Waiting(c) THEN UpTo(since_chunk[c], time_gap) ELSE since_chunk[c]]
    /\ UNCHANGED <<msg_store, next_index, provider_of, stream, closed, task, buffer,
                   patches, gen, delivered>>

\* The process that runs the tasks goes down, and the subprocess with it: the
\* tasks, their processors and the streams are gone; the store's content is
\* what the next invocation finds.
Restart ==
    /\ \E c \in Channels : task[c] \in {"read", "push"}
    /\ task' = [c \in Channels |-> "killed"]
    /\ patches' = NoText
    /\ buffer' = NoText
    /\ since_chunk' = Zero
    /\ stream' = NoText
    /\ closed' = [c \in Channels |-> TRUE]
    /\ UNCHANGED <<msg_store, next_index, provider_of, gen, delivered>>

HistInit ==
    /\ quiet = Zero
    /\ arrived = NoText

LogInit ==
    /\ msg_store = <<>>
    /\ next_index = [p \in Providers |-> 0]
    /\ provider_of = ProviderWiring
    /\ stream = NoText
    /\ closed = [c \in Channels |-> FALSE]
    /\ task = [c \in Channels |-> "none"]
    /\ buffer = NoText
    /\ since_chunk = Zero
    /\ patches = NoText
    /\ gen = 0
    /\ delivered = 0
    /\ HistInit

\* =========================================================================
\* spawn and spawn_follow_up (kiro.rs 42-152)
\* =========================================================================
None == "None"

\* Option<T>: Nothing, or Some(x).
Nothing == <<>>
Some(x) == <<x>>
Unwrap(o) == o[1]

\* CmdOverrides: base_command_override (a command line, as its words) and
\* additional_params.
KiroConfigs ==
    [model : {Nothing, Some("sonnet")},
     base_command_override : {Nothing, Some(<<>>), Some(<<"my-kiro">>)},
     additional_params : {<<>>, <<"--verbose">>}]

\* CommandBuilder::new(base): the base command line and no parameters.
new(base) == [base |-> base, params |-> <<>>]

\* CommandBuilder::extend_params: the flags go after the parameters so far.
extend_params(builder, flags) == [builder EXCEPT !.params = @ \o flags]

\* apply_overrides: the override replaces the base command, the additional
\* parameters go after the parameters so far.
apply_overrides(builder, cmd) ==
    LET based == IF cmd.base_command_override = Nothing THEN builder
                 ELSE [builder EXCEPT !.base = Unwrap(cmd.base_command_override)]
    IN extend_params(based, cmd.additional_params)

\* fn build_command_builder
build_command_builder ==
    LET fixed == extend_params(new(<<"kiro-cli", "chat">>),
                               <<"--no-interactive", "--trust-all-tools">>)
        modelled == IF kiro.model # Nothing
                    THEN extend_params(fixed, <<"--model", Unwrap(kiro.model)>>)
                    ELSE fixed
    IN apply_overrides(modelled, kiro)

\* CommandBuilder::build_initial / build_follow_up(extra): the program is the
\* first word of the base command, the arguments are its other words, the
\* parameters and the extra flags; a base command without a word is an error.
build(builder, extra) ==
    IF builder.base = <<>>
    THEN [ok |-> FALSE, program |-> None, args |-> <<>>]
    ELSE [ok |-> TRUE, program |-> Head(builder.base),
          args |-> Tail(builder.base) \o builder.params \o extra]

build_initial(builder) == build(builder, <<>>)
build_follow_up(builder, extra) == build(builder, extra)

Ops == {"spawn", "spawn_follow_up"}

NoCall ==
    [op |-> None, pc |-> "idle", result |-> None, failed |-> None,
     program |-> None, args |-> <<>>, resolved |-> FALSE, child |-> 0]

\* A caller invokes spawn or spawn_follow_up; calls come one after another.
Call(op) ==
    /\ call.pc \in {"idle", "returned"}
    /\ calls < MaxCalls
    /\ calls' = calls + 1
    /\ call' = [NoCall EXCEPT !.op = op, !.pc = "build"]
    /\ UNCHANGED <<kiro, session_dir, children>>

\* `?`: the call returns the error; a child the call has created is dropped
\* with it, and the child was set up with kill_on_drop(true).
FailLeaking(step) ==
    /\ call' = [call EXCEPT !.pc = "returned", !.result = "Err", !.failed = step]
    /\ UNCHANGED children

Fail(step) ==
    /\ call' = [call EXCEPT !.pc = "returned", !.result = "Err", !.failed = step]
    /\ children' = [i \in DOMAIN children |->
            IF i = call.child
            THEN [children[i] EXCEPT !.alive = FALSE, !.stdin = "dropped"]
            ELSE children[i]]

\* self.build_command_builder().build_initial()?  /
\* self.build_command_builder().build_follow_up(&["--resume"])?
BuildInitialAlways ==
    /\ call.pc = "build"
    /\ LET parts == build_initial(build_command_builder)
       IN IF parts.ok
          THEN /\ call' = [call EXCEPT !.pc = "resolve", !.program = parts.program,
                                       !.args = parts.args]
               /\ UNCHANGED children
          ELSE Fail("build")
    /\ UNCHANGED <<kiro, session_dir, calls>>

Build ==
    /\ call.pc = "build"
    /\ LET parts == IF call.op = "spawn"
                    THEN build_initial(build_command_builder)
                    ELSE build_follow_up(build_command_builder, <<"--resume">>)
       IN IF parts.ok
          THEN /\ call' = [call EXCEPT !.pc = "resolve", !.program = parts.program,
                                       !.args = parts.args]
               /\ UNCHANGED children
          ELSE Fail("build")
    /\ UNCHANGED <<kiro, session_dir, calls>>

\* command_parts.into_resolved().await?  The executable is found or it is not.
ResolveWith(found, abort) ==
    /\ call.pc = "resolve"
    /\ IF found \/ ~abort
       THEN /\ call' = [call EXCEPT !.pc = IF call.op = "spawn" THEN "mkdir" ELSE "create",
                                    !.resolved = found]
            /\ UNCHANGED children
       ELSE Fail("resolve")
    /\ UNCHANGED <<kiro, session_dir, calls>>

ResolveUnchecked(found) == ResolveWith(found, FALSE)
Resolve(found) == ResolveWith(found, TRUE)

\* std::fs::create_dir_all(&session_dir).ok();  An error is discarded.
\* spawn alone has this step.
Mkdir(ok) ==
    /\ call.pc = "mkdir"
    /\ session_dir' = (session_dir \/ ok)
    /\ call' = [call EXCEPT !.pc = "create"]
    /\ UNCHANGED <<kiro, children, calls>>

\* command.group_spawn()?  with current_dir(&session_dir): the process cannot
\* be created in a directory that does not exist, and may fail otherwise too.
Create(ok) ==
    /\ call.pc = "create"
    /\ IF ok /\ session_dir
       THEN /\ children' = Append(children,
                    [call |-> calls, program |-> call.program, args |-> call.args,
                     alive |-> TRUE, stdin |-> "open", written |-> "nothing"])
            /\ call' = [call EXCEPT !.pc = "write", !.child = Len(children) + 1]
       ELSE Fail("create")
    /\ UNCHANGED <<kiro, session_dir, calls>>

\* stdin.write_all(combined_prompt.as_bytes()).await?
\* All of the prompt is written, or the write fails after none or a part of it.
WriteOutcomes == {"all", "part", "nothing"}

Write(outcome) ==
    /\ call.pc = "write"
    /\ IF outcome = "all"
       THEN /\ children' = [children EXCEPT ![call.child].written = "all"]
            /\ call' = [call EXCEPT !.pc = "close"]
       ELSE /\ call' = [call EXCEPT !.pc = "returned", !.result = "Err", !.failed = "write"]
            /\ children' = [children EXCEPT ![call.child] =
                    [@ EXCEPT !.written = outcome, !.alive = FALSE, !.stdin = "dropped"]]
    /\ UNCHANGED <<kiro, session_dir, calls>>

\* stdin.shutdown().await?  and then Ok(child.into())
ShutdownUnchecked(ok) ==
    /\ call.pc = "close"
    /\ children' = [children EXCEPT ![call.child].stdin = IF ok THEN "closed" ELSE "open"]
    /\ call' = [call EXCEPT !.pc = "returned", !.result = "Ok"]
    /\ UNCHANGED <<kiro, session_dir, calls>>

Shutdown(ok) ==
    /\ call.pc = "close"
    /\ IF ok
       THEN /\ children' = [children EXCEPT ![call.child].stdin = "closed"]
            /\ call' = [call EXCEPT !.pc = "returned", !.result = "Ok"]
       ELSE Fail("close")
    /\ UNCHANGED <<kiro, session_dir, calls>>

SpawnInit ==
    /\ kiro \in KiroConfigs
    /\ session_dir = FALSE
    /\ children = <<>>
    /\ call = NoCall
    /\ calls = 0

\* No call of spawn or spawn_follow_up is made.
SpawnStill ==
    /\ kiro = [model |-> Nothing, base_command_override |-> Nothing,
               additional_params |-> <<>>]
    /\ session_dir = FALSE
    /\ children = <<>>
    /\ call = NoCall
    /\ calls = 0

\* =========================================================================
\* run_kiro_setup (kiro_setup.rs 21-111)
\* =========================================================================
Callers == {1, 2}
Workspaces == {"w1", "w2"}
TheWorkspace == "w1"      \* the workspace run_kiro_setup is called for

\* An ExecutorAction is the chain of its steps, the first to run first.
SetupStep == "ScriptRequest(ToolInstallScript)"

Proc(w, s, reason, valid, chain) ==
    [workspace |-> w, session |-> s, run_reason |-> reason,
     valid |-> valid, chain |-> chain]

\* What the tables can hold before the first call: sessions of the workspaces
\* that have run something, and up to two execution processes.
PriorSessions ==
    {<<>>,
     <<[id |-> 1, workspace |-> "w1", executor |-> "claude"]>>,
     <<[id |-> 1, workspace |-> "w1", executor |-> "claude"],
       [id |-> 2, workspace |-> "w1", executor |-> "kiro"]>>,
     <<[id |-> 1, workspace |-> "w2", executor |-> "claude"]>>,
     <<[id |-> 1, workspace |-> "w1", executor |-> "claude"],
       [id |-> 2, workspace |-> "w2", executor |-> "claude"]>>}

PriorProcsOf(ss) ==
    UNION {{Proc(ss[i].workspace, ss[i].id, "CodingAgent", TRUE,
                 <<"CodingAgentInitialRequest">>),
            Proc(ss[i].workspace, ss[i].id, "CodingAgent", TRUE,
                 <<"CodingAgentFollowUpRequest", "ScriptRequest(CleanupScript)">>),
            Proc(ss[i].workspace, ss[i].id, "CodingAgent", FALSE, <<>>),
            Proc(ss[i].workspace, ss[i].id, "SetupScript", TRUE,
                 <<"ScriptRequest(SetupScript)">>)} : i \in DOMAIN ss}

PriorTables(ss) ==
    {<<>>} \cup {<<p>> : p \in PriorProcsOf(ss)}
           \cup {<<p, q>> : p \in PriorProcsOf(ss), q \in PriorProcsOf(ss)}

\* ExecutionProcess::find_latest_by_workspace_and_run_reason
find_latest_by_workspace_and_run_reason(table, w, reason) ==
    LET mine == SelectSeq(table, LAMBDA p : p.workspace = w /\ p.run_reason = reason)
    IN IF mine = <<>> THEN Nothing ELSE Some(mine[Len(mine)])

\* Session::find_latest_by_workspace_id
find_latest_by_workspace_id(table, w) ==
    LET mine == SelectSeq(table, LAMBDA x : x.workspace = w)
    IN IF mine = <<>> THEN Nothing ELSE Some(mine[Len(mine)])

\* ExecutorAction::append_action: the given action runs after this chain.
append_action(chain, action) == chain \o action

\* async fn get_setup_helper_action, the cfg(unix) and the cfg(not(unix)) one.
get_setup_helper_action_anywhere == [ok |-> TRUE, chain |-> <<SetupStep>>]
get_setup_helper_action ==
    IF unix THEN [ok |-> TRUE, chain |-> <<SetupStep>>]
    ELSE [ok |-> FALSE, chain |-> <<>>]

NoSetup ==
    [pc |-> "idle", result |-> None, latest |-> Nothing, action |-> <<>>,
     session |-> 0]

Returns(c, result) == setup' = [setup EXCEPT ![c].pc = "returned", ![c].result = result]

\* No call is in progress.
OneAtATime == \A d \in Callers : setup[d].pc \in {"idle", "returned"}

\* A caller invokes run_kiro_setup for the workspace.
Start(c) ==
    /\ setup[c].pc \in {"idle", "returned"}
    /\ setup_calls < MaxSetupCalls
    /\ setup_calls' = setup_calls + 1
    /\ setup' = [setup EXCEPT ![c] = [NoSetup EXCEPT !.pc = "find"]]
    /\ UNCHANGED <<unix, processes, sessions, container, prior>>

\* ExecutionProcess::find_latest_by_workspace_and_run_reason(..).await?
FindLatest(c, ok) ==
    /\ setup[c].pc = "find"
    /\ IF ok
       THEN setup' = [setup EXCEPT ![c].pc = "compose",
                ![c].latest = find_latest_by_workspace_and_run_reason(
                                  processes, TheWorkspace, "CodingAgent")]
       ELSE Returns(c, "Err(Database)")
    /\ UNCHANGED <<unix, processes, sessions, container, setup_calls, prior>>

\* let executor_action = if let Some(latest_process) = latest_process { .. }
\* The setup helper action alone, or followed by the latest action.
ComposedAlone(helper, latest) == helper
Composed(helper, latest) ==
    IF latest # Nothing THEN append_action(helper, Unwrap(latest).chain) ELSE helper

Compose(c) ==
    /\ setup[c].pc = "compose"
    /\ LET latest == setup[c].latest
           helper == get_setup_helper_action
       IN IF latest # Nothing /\ ~Unwrap(latest).valid
          THEN Returns(c, "Err(ValidationError)")
          ELSE IF ~helper.ok
          THEN Returns(c, "Err(UnsupportedPlatform)")
          ELSE setup' = [setup EXCEPT ![c].pc = "container",
                                      ![c].action = Composed(helper.chain, latest)]
    /\ UNCHANGED <<unix, processes, sessions, container, setup_calls, prior>>

\* deployment.container().ensure_container_exists(workspace).await?
EnsureContainer(c, ok) ==
    /\ setup[c].pc = "container"
    /\ IF ok
       THEN /\ container' = TRUE
            /\ setup' = [setup EXCEPT ![c].pc = "session"]
       ELSE /\ Returns(c, "Err(Container)")
            /\ UNCHANGED container
    /\ UNCHANGED <<unix, processes, sessions, setup_calls, prior>>

\* match Session::find_latest_by_workspace_id(..).await? { Some(s) => s, None => .. }
FindSessionNever(c, ok) ==
    /\ setup[c].pc = "session"
    /\ IF ~ok THEN Returns(c, "Err(Database)")
       ELSE setup' = [setup EXCEPT ![c].pc = "new_session"]
    /\ UNCHANGED <<unix, processes, sessions, container, setup_calls, prior>>

FindSession(c, ok) ==
    /\ setup[c].pc = "session"
    /\ LET found == find_latest_by_workspace_id(sessions, TheWorkspace)
       IN IF ~ok THEN Returns(c, "Err(Database)")
          ELSE IF found # Nothing
          THEN setup' = [setup EXCEPT ![c].pc = "process",
                                      ![c].session = Unwrap(found).id]
          ELSE setup' = [setup EXCEPT ![c].pc = "new_session"]
    /\ UNCHANGED <<unix, processes, sessions, container, setup_calls, prior>>

\* Session::create(.., executor: Some("kiro"), Uuid::new_v4(), workspace.id).await?
CreateSession(c, ok) ==
    /\ setup[c].pc = "new_session"
    /\ IF ok
       THEN /\ sessions' = Append(sessions,
                    [id |-> Len(sessions) + 1, workspace |-> TheWorkspace,
                     executor |-> "kiro"])
            /\ setup' = [setup EXCEPT ![c].pc = "process",
                                      ![c].session = Len(sessions) + 1]
       ELSE /\ Returns(c, "Err(Database)")
            /\ UNCHANGED sessions
    /\ UNCHANGED <<unix, processes, container, setup_calls, prior>>

\* ExecutionProcess::create(.., session.id, workspace.id, CodingAgent,
\* executor_action).await?  and Ok(execution_process)
CreateProcess(c, ok) ==
    /\ setup[c].pc = "process"
    /\ IF ok
       THEN /\ processes' = Append(processes,
                    Proc(TheWorkspace, setup[c].session, "CodingAgent", TRUE,
                         setup[c].action))
            /\ Returns(c, "Ok")
       ELSE /\ Returns(c, "Err(Database)")
            /\ UNCHANGED processes
    /\ UNCHANGED <<unix, sessions, container, setup_calls, prior>>

SetupInit ==
    /\ unix \in BOOLEAN
    /\ sessions \in PriorSessions
    /\ processes \in PriorTables(sessions)
    /\ container = FALSE
    /\ setup = [c \in Callers |-> NoSetup]
    /\ setup_calls = 0
    /\ prior = [processes |-> processes, sessions |-> sessions, container |-> container]

\* No call of run_kiro_setup is made.
SetupStill ==
    /\ unix = TRUE
    /\ sessions = <<>>
    /\ processes = <<>>
    /\ container = FALSE
    /\ setup = [c \in Callers |-> NoSetup]
    /\ setup_calls = 0
    /\ prior = [processes |-> <<>>, sessions |-> <<>>, container |-> FALSE]

\* =========================================================================
\* The specifications
\* =========================================================================
NoHistory == UNCHANGED <<quiet, arrived>>

LogsOnly == UNCHANGED <<spawnVars, setupVars>>
SpawnOnly == UNCHANGED <<logVars, setupVars>>
SetupOnly == UNCHANGED <<logVars, spawnVars>>

\* Both channels, any number of invocations and restarts; no record of the
\* arrivals is kept.
InitLogs == LogInit /\ SpawnStill /\ SetupStill

NextLogs ==
    \/ normalize_logs /\ NoHistory /\ LogsOnly
    \/ \E c \in Channels : ReadChunk(c) /\ NoHistory /\ LogsOnly
    \/ \E c \in Channels : ReadErr(c) /\ NoHistory /\ LogsOnly
    \/ \E c \in Channels : ReadEnd(c) /\ NoHistory /\ LogsOnly
    \/ \E c \in Channels : PushPatch(c) /\ NoHistory /\ LogsOnly
    \/ \E c \in Channels, i \in Items(delivered + 1) :
        Deliver(c, i) /\ NoHistory /\ LogsOnly
    \/ \E c \in Channels : Close(c) /\ NoHistory /\ LogsOnly
    \/ Tick /\ NoHistory /\ LogsOnly
    \/ Restart /\ NoHistory /\ LogsOnly

SpecLogs == InitLogs /\ [][NextLogs]_vars

\* The same with fewer items, and with each task scheduled whenever it can
\* take a step: a tokio task that is ready runs. Nothing is assumed of the
\* subprocess, which may leave a channel open for ever.
TaskStep(c) ==
    (ReadChunk(c) \/ ReadErr(c) \/ ReadEnd(c) \/ PushPatch(c)) /\ NoHistory /\ LogsOnly

NextLogsFair ==
    \/ normalize_logs /\ NoHistory /\ LogsOnly
    \/ \E c \in Channels : ReadChunk(c) /\ NoHistory /\ LogsOnly
    \/ \E c \in Channels : ReadErr(c) /\ NoHistory /\ LogsOnly
    \/ \E c \in Channels : ReadEnd(c) /\ NoHistory /\ LogsOnly
    \/ \E c \in Channels : PushPatch(c) /\ NoHistory /\ LogsOnly
    \/ \E c \in Channels, i \in Items(delivered + 1) :
        delivered < MaxFairChunks /\ Deliver(c, i) /\ NoHistory /\ LogsOnly
    \/ \E c \in Channels : Close(c) /\ NoHistory /\ LogsOnly
    \/ Tick /\ NoHistory /\ LogsOnly
    \/ Restart /\ NoHistory /\ LogsOnly

SpecLogsFair ==
    InitLogs /\ [][NextLogsFair]_vars /\ \A c \in Channels : WF_vars(TaskStep(c))

\* The subprocess writes to stdout alone, and every arrival is recorded with
\* the quiet time before it.
InitChannel == LogInit /\ SpawnStill /\ SetupStill

NextChannel ==
    \/ normalize_logs /\ quiet' = Zero /\ arrived' = NoText /\ LogsOnly
    \/ \E c \in Channels : ReadChunk(c) /\ NoHistory /\ LogsOnly
    \/ \E c \in Channels : ReadErr(c) /\ NoHistory /\ LogsOnly
    \/ \E c \in Channels : ReadEnd(c) /\ NoHistory /\ LogsOnly
    \/ \E c \in Channels : PushPatch(c) /\ NoHistory /\ LogsOnly
    \/ \E i \in Items(delivered + 1) :
        /\ Deliver("stdout", i)
        /\ arrived' = [arrived EXCEPT
                !["stdout"] = Append(@, [item |-> i, quiet |-> quiet["stdout"]])]
        /\ quiet' = [quiet EXCEPT !["stdout"] = 0]
        /\ LogsOnly
    \/ \E c \in Channels : Close(c) /\ NoHistory /\ LogsOnly
    \/ /\ Tick
       /\ quiet' = [c \in Channels |-> UpTo(quiet[c], time_gap + 1)]
       /\ UNCHANGED arrived
       /\ LogsOnly
    \/ Restart /\ NoHistory /\ LogsOnly

SpecChannel == InitChannel /\ [][NextChannel]_vars

\* spawn and spawn_follow_up, one call after another, for every configuration.
InitSpawn == LogInit /\ SpawnInit /\ SetupStill

NextSpawn ==
    \/ \E op \in Ops : Call(op) /\ SpawnOnly
    \/ Build /\ SpawnOnly
    \/ \E found \in BOOLEAN : Resolve(found) /\ SpawnOnly
    \/ \E ok \in BOOLEAN : Mkdir(ok) /\ SpawnOnly
    \/ \E ok \in BOOLEAN : Create(ok) /\ SpawnOnly
    \/ \E outcome \in WriteOutcomes : Write(outcome) /\ SpawnOnly
    \/ \E ok \in BOOLEAN : Shutdown(ok) /\ SpawnOnly

SpecSpawn == InitSpawn /\ [][NextSpawn]_vars

\* run_kiro_setup, one call after another, on every content of the tables.
InitSetup == LogInit /\ SpawnStill /\ SetupInit

NextSetup ==
    \/ \E c \in Callers : OneAtATime /\ Start(c) /\ SetupOnly
    \/ \E c \in Callers, ok \in BOOLEAN : FindLatest(c, ok) /\ SetupOnly
    \/ \E c \in Callers : Compose(c) /\ SetupOnly
    \/ \E c \in Callers, ok \in BOOLEAN : EnsureContainer(c, ok) /\ SetupOnly
    \/ \E c \in Callers, ok \in BOOLEAN : FindSession(c, ok) /\ SetupOnly
    \/ \E c \in Callers, ok \in BOOLEAN : CreateSession(c, ok) /\ SetupOnly
    \/ \E c \in Callers, ok \in BOOLEAN : CreateProcess(c, ok) /\ SetupOnly

SpecSetup == InitSetup /\ [][NextSetup]_vars

\* run_kiro_setup, the calls of two callers overlapping in every way.
NextSetupConcurrent ==
    \/ \E c \in Callers : Start(c) /\ SetupOnly
    \/ \E c \in Callers, ok \in BOOLEAN : FindLatest(c, ok) /\ SetupOnly
    \/ \E c \in Callers : Compose(c) /\ SetupOnly
    \/ \E c \in Callers, ok \in BOOLEAN : EnsureContainer(c, ok) /\ SetupOnly
    \/ \E c \in Callers, ok \in BOOLEAN : FindSession(c, ok) /\ SetupOnly
    \/ \E c \in Callers, ok \in BOOLEAN : CreateSession(c, ok) /\ SetupOnly
    \/ \E c \in Callers, ok \in BOOLEAN : CreateProcess(c, ok) /\ SetupOnly

SpecSetupConcurrent == InitSetup /\ [][NextSetupConcurrent]_vars

\* ---- what the claims about normalize_logs speak of
EntryAt(i) == msg_store[i].kind = "entry"
EntryPositions == {i \in DOMAIN msg_store : EntryAt(i)}

\* The indices process() has handed out for patches that are not pushed yet.
PendingIndices == {patches[c][1].index : c \in {d \in Channels : patches[d] # <<>>}}

\* The contents of the entries the task of channel ch pushed in this
\* invocation, in push order.
PushedBy(ch) ==
    LET mine == SelectSeq(msg_store, LAMBDA m : m.kind = "entry" /\ m.ch = ch /\ m.gen = gen)
    IN [i \in DOMAIN mine |-> mine[i].content]

\* The contents of all entries of channel ch, in push order.
ContentsOf(ch) ==
    LET mine == SelectSeq(msg_store, LAMBDA m : m.kind = "entry" /\ m.ch = ch)
    IN [i \in DOMAIN mine |-> mine[i].content]

\* The chunks that arrived on ch in this invocation, in arrival order.
ChunksOf(ch) ==
    LET oks == SelectSeq(arrived[ch], LAMBDA a : a.item.ok)
    IN [i \in DOMAIN oks |-> oks[i].item.text]

NoReadError(ch) == \A i \in DOMAIN arrived[ch] : arrived[ch][i].item.ok

Increasing(s) == \A i, j \in DOMAIN s : i < j => s[i] < s[j]

\* C1: no two entries of the log have the same index, whichever task pushed
\* them and in whichever invocation; and a provider hands out only indices
\* above every index in the log and every index it has handed out for a patch
\* still to be pushed (gaps may occur, duplicates never).
C1_IndicesNeverRepeat ==
    /\ \A i, j \in EntryPositions : i # j => msg_store[i].index # msg_store[j].index
    /\ \A c, d \in Channels :
        (c # d /\ patches[c] # <<>> /\ patches[d] # <<>>)
            => patches[c][1].index # patches[d][1].index
    /\ PendingIndices \cap IndicesOf(msg_store) = {}
    /\ \A c \in Channels : task[c] \in {"read", "push"} =>
        \A x \in IndicesOf(msg_store) \cup PendingIndices : x < next_index[provider_of[c]]

\* The log holds an entry of the first invocation and one of the second,
\* which resumed the log after a restart.
C1_Witness ==
    /\ \E c \in Channels : task[c] = "read"
    /\ \E i, j \in EntryPositions :
        /\ msg_store[i].gen = 1 /\ msg_store[j].gen = 2
        /\ msg_store[i].index < msg_store[j].index

\* C2: within one channel the entries are pushed in the order their fragments
\* arrived (a fragment's number is its place in the arrival order), and their
\* indices increase strictly in push order.
C2_ChannelOrder ==
    \A c \in Channels :
        /\ Increasing(Flatten(ContentsOf(c)))
        /\ \A i, j \in EntryPositions :
            (i < j /\ msg_store[i].ch = c /\ msg_store[j].ch = c)
                => msg_store[i].index < msg_store[j].index

\* One channel has pushed two entries in one invocation, the first made of
\* two fragments.
C2_Witness ==
    \E i, j \in EntryPositions :
        /\ i < j
        /\ msg_store[i].ch = msg_store[j].ch
        /\ msg_store[i].gen = msg_store[j].gen
        /\ Len(msg_store[i].content) = 2

\* C3: once a channel's stream has closed without a read error and its task
\* has finished, the contents of the entries the task pushed, concatenated,
\* are the chunks that arrived, concatenated (compared after the removal of
\* the escape sequences, which the entry producer performs).
C3_NothingLost ==
    \A c \in Channels :
        (task[c] = "done" /\ closed[c] /\ NoReadError(c))
            => Flatten(PushedBy(c)) = strip_str(Flatten(ChunksOf(c)))

\* C4: two chunks A and B on a channel, B more than time_gap after A, give
\* two entries, A alone and then B alone; B less than time_gap after A gives
\* one entry, A followed by B.
TwoChunks(c) ==
    /\ task[c] = "done" /\ closed[c] /\ NoReadError(c)
    /\ Len(arrived[c]) = 2
    /\ \A i \in 1..2 : arrived[c][i].item.text # <<>>

C4_GapSplitsEntries ==
    \A c \in Channels : TwoChunks(c) =>
        LET A == arrived[c][1].item.text
            B == arrived[c][2].item.text
            gap == arrived[c][2].quiet
        IN /\ gap > time_gap => PushedBy(c) = <<strip_str(A), strip_str(B)>>
           /\ gap < time_gap => PushedBy(c) = <<strip_str(A \o B)>>

\* C5: a task that finishes because its stream ended has left no text in its
\* processor's pending buffer: what was pending was flushed and pushed.
C5_FlushAtEnd ==
    \A c \in Channels :
        (task[c] = "done" /\ NoReadError(c)) => buffer[c] = <<>>

\* C6: a read error does not end the task: a task that has finished has left
\* no valid chunk unread in its stream.
C6_ReadErrorSkipped ==
    \A c \in Channels :
        task[c] = "done" => \A i \in DOMAIN stream[c] : ~stream[c][i].ok

\* C16: once a channel's stream has closed, the task of that channel comes to
\* its end (or is gone with its process), whatever the other channel does and
\* whether or not the other channel's stream ever closes; no step of the
\* model cancels a task whose process lives.
Ended(c) == task[c] \in {"done", "killed"}

C16_TasksTerminate == \A c \in Channels : closed[c] ~> Ended(c)

\* The stdout task has come to its end after pushing an entry, while the
\* stderr task still reads its stream, which is open.
C16_Witness ==
    /\ task["stdout"] = "done" /\ closed["stdout"]
    /\ task["stderr"] = "read" /\ ~closed["stderr"]
    /\ \E i \in EntryPositions : msg_store[i].ch = "stdout" /\ msg_store[i].gen = gen

\* C17: every entry in the store and every patch about to be pushed has the
\* type of its channel, AssistantMessage for the stdout task and
\* SystemMessage for the stderr task, and neither timestamp nor metadata.
TypedByChannel(m) ==
    /\ m.ch = "stdout" => m.entry_type = "AssistantMessage"
    /\ m.ch = "stderr" => m.entry_type = "SystemMessage"
    /\ m.ch \in Channels
    /\ m.timestamp = "None" /\ m.metadata = "None"

C17_TypeByChannel ==
    /\ \A i \in EntryPositions : TypedByChannel(msg_store[i])
    /\ \A c \in Channels : \A k \in DOMAIN patches[c] :
        patches[c][k].ch = c /\ TypedByChannel(patches[c][k])

\* The store holds an entry of each channel, pushed in the same invocation.
C17_Witness ==
    \E i, j \in EntryPositions :
        /\ msg_store[i].ch = "stdout" /\ msg_store[j].ch = "stderr"
        /\ msg_store[i].gen = msg_store[j].gen
        /\ msg_store[i].content # <<>> /\ msg_store[j].content # <<>>

\* C20: the store holds one session id for each invocation so far and no
\* other; the entries of an invocation come after its session id and their
\* indices are not below the seed taken from the store as it was before that
\* session id; what the tasks hold to push are entries, never a session id.
SessionPositions(g) ==
    {i \in DOMAIN msg_store : msg_store[i].kind = "session" /\ msg_store[i].gen = g}

C20_OneSessionIdFirst ==
    /\ \A g \in 1..gen : Cardinality(SessionPositions(g)) = 1
    /\ \A i \in DOMAIN msg_store : msg_store[i].gen \in 1..gen
    /\ \A i \in EntryPositions : \E s \in SessionPositions(msg_store[i].gen) :
        /\ s < i
        /\ msg_store[i].index >= start_from(SubSeq(msg_store, 1, s - 1))
    /\ \A c \in Channels : \A k \in DOMAIN patches[c] : patches[c][k].kind = "entry"
    /\ gen = 0 => msg_store = <<>>

\* The second invocation has pushed its session id after an entry of the
\* first, and one of its tasks has pushed an entry.
C20_Witness ==
    /\ gen = 2
    /\ \E i, s, j \in DOMAIN msg_store :
        /\ i < s /\ s < j
        /\ msg_store[i].kind = "entry" /\ msg_store[i].gen = 1
        /\ msg_store[s].kind = "session" /\ msg_store[s].gen = 2
        /\ msg_store[j].kind = "entry" /\ msg_store[j].gen = 2

\* C7: a call that is about to create the subprocess has the session
\* directory in place, be it spawn or spawn_follow_up.
C7_SessionDirBeforeSpawn ==
    call.pc = "create" => session_dir

\* C10: a call that failed in command building or in the resolution of the
\* executable has returned an error without having created a subprocess, so
\* without having written to a standard input; and a subprocess is created
\* only by a call that has resolved its executable.
ChildrenOfCall == {i \in DOMAIN children : children[i].call = calls}

C10_NoProcessOnBuildFailure ==
    /\ call.failed \in {"build", "resolve"} =>
        /\ call.pc = "returned" /\ call.result = "Err"
        /\ call.child = 0 /\ ChildrenOfCall = {}
    /\ ChildrenOfCall # {} => call.resolved
    /\ call.pc \in {"build", "resolve"} => ChildrenOfCall = {}

\* A follow-up call has failed to resolve its executable, after an earlier
\* call had created its subprocess.
C10_Witness ==
    /\ call.op = "spawn_follow_up"
    /\ call.failed = "resolve" /\ call.result = "Err"
    /\ Len(children) = 1 /\ children[1].call = 1

\* C11: a call that has returned Ok has written the whole prompt to its
\* child's standard input and has then closed it: the close is attempted only
\* after the whole prompt is written, and Ok is returned only after the close;
\* a failing write or close makes the call return an error, and what was
\* written to a standard input is never added to by a second write.
C11_State ==
    /\ (call.pc = "returned" /\ call.result = "Ok") =>
        /\ call.child \in DOMAIN children
        /\ children[call.child].written = "all"
        /\ children[call.child].stdin = "closed"
    /\ \A i \in DOMAIN children :
        children[i].stdin = "closed" => children[i].written = "all"
    /\ call.pc = "close" =>
        /\ children[call.child].written = "all"
        /\ children[call.child].stdin = "open"
    /\ call.failed \in {"write", "close"} =>
        /\ call.pc = "returned" /\ call.result = "Err"
        /\ children[call.child].stdin = "dropped"

C11_NoRetry ==
    \A i \in DOMAIN children :
        (children[i].written # "nothing" \/ children[i].stdin # "open")
            => children'[i].written = children[i].written

C11_PromptWrittenThenClosed == [](C11_State) /\ [][C11_NoRetry]_vars

\* A follow-up call has returned Ok, after a call whose write had failed
\* with a part of the prompt written.
C11_Witness ==
    /\ call.op = "spawn_follow_up" /\ call.pc = "returned" /\ call.result = "Ok"
    /\ call.child = 2
    /\ children[1].written = "part" /\ children[1].stdin = "dropped"

\* C12: a subprocess that is still running belongs to the call in progress,
\* or to a call that closed its standard input after the whole prompt and
\* returned Ok: a call that created its subprocess and returned an error has
\* released the handle and the subprocess is terminated.
C12_NoOrphan ==
    /\ \A i \in DOMAIN children : children[i].alive =>
        \/ children[i].stdin = "closed" /\ children[i].written = "all"
        \/ i = call.child /\ call.pc \in {"write", "close"}
    /\ (call.pc = "returned" /\ call.result = "Err" /\ call.child # 0) =>
        /\ ~children[call.child].alive
        /\ children[call.child].stdin = "dropped"

\* A call has written the whole prompt, has failed to close the standard
\* input and has returned the error.
C12_Witness ==
    /\ call.pc = "returned" /\ call.result = "Err" /\ call.failed = "close"
    /\ call.child # 0
    /\ children[call.child].written = "all"

\* C13: whatever the configuration, the argument list of a follow-up call
\* holds --no-interactive, then --trust-all-tools, then (when a model is set)
\* --model and the model, and after all of these the flag --resume.
C13_FollowUpFlags ==
    (call.op = "spawn_follow_up" /\ call.pc # "build" /\ call.failed # "build") =>
        LET a == call.args IN
        /\ \E i, j, r \in DOMAIN a :
            /\ i < j /\ j < r
            /\ a[i] = "--no-interactive" /\ a[j] = "--trust-all-tools"
            /\ a[r] = "--resume"
        /\ kiro.model # Nothing =>
            \E i, r \in DOMAIN a :
                /\ i + 1 < r
                /\ a[i] = "--model" /\ a[i + 1] = Unwrap(kiro.model)
                /\ a[r] = "--resume"

\* A follow-up call has built its command for a configuration with a model,
\* another base command and additional parameters.
C13_Witness ==
    /\ call.op = "spawn_follow_up" /\ call.pc = "resolve"
    /\ kiro.model # Nothing
    /\ kiro.base_command_override = Some(<<"my-kiro">>)
    /\ kiro.additional_params # <<>>
    /\ call.program = "my-kiro"

\* C14: the command a call resolves is the command as apply_overrides left
\* it: its arguments are the words of the base command after the first and
\* the parameters of the builder build_command_builder returned, and nothing
\* was added after them, in spawn and in spawn_follow_up.
C14_OverridesLast ==
    (call.pc \notin {"idle", "build"} /\ call.failed # "build") =>
        call.args = Tail(build_command_builder.base) \o build_command_builder.params

\* ---- what the claims about run_kiro_setup speak of
\* P: the latest coding-agent action of the workspace before the first call.
PriorLatest ==
    find_latest_by_workspace_and_run_reason(prior.processes, TheWorkspace, "CodingAgent")
PriorChain == IF PriorLatest = Nothing THEN <<>> ELSE Unwrap(PriorLatest).chain

Setups(k) == [i \in 1..k |-> SetupStep]

\* C8: with the calls made one after another, the k-th of them that stores an
\* action (a failing call stores none) stores k setup actions followed by P
\* as it was; the processes stored before the calls are still as they were.
C8_ChainOfSetupsThenPrior ==
    /\ SubSeq(processes, 1, Len(prior.processes)) = prior.processes
    /\ \A n \in DOMAIN processes : n > Len(prior.processes) =>
        /\ processes[n].workspace = TheWorkspace
        /\ processes[n].run_reason = "CodingAgent"
        /\ processes[n].valid
        /\ processes[n].chain = Setups(n - Len(prior.processes)) \o PriorChain

\* The second call has stored its action, and P was a chain of two steps.
C8_Witness ==
    /\ Len(processes) = Len(prior.processes) + 2
    /\ Len(PriorChain) = 2
    /\ \E c \in Callers : setup[c].pc = "returned" /\ setup[c].result = "Ok"

\* C15: with the calls made one after another, the sessions that were there
\* before the calls stay as they were; a workspace that had a session gets no
\* other, a workspace that had none gets one, created by the first call that
\* comes so far, and no second; every execution process the calls create
\* references the latest session of the workspace, which is that one session
\* where there was none before.
SessionsOf(table) == SelectSeq(table, LAMBDA x : x.workspace = TheWorkspace)

C15_SessionLazyAndReused ==
    /\ SubSeq(sessions, 1, Len(prior.sessions)) = prior.sessions
    /\ SessionsOf(prior.sessions) # <<>> => sessions = prior.sessions
    /\ SessionsOf(prior.sessions) = <<>> => Len(SessionsOf(sessions)) <= 1
    /\ \A n \in DOMAIN processes : n > Len(prior.processes) =>
        /\ SessionsOf(sessions) # <<>>
        /\ processes[n].session = SessionsOf(sessions)[Len(SessionsOf(sessions))].id
        /\ SessionsOf(prior.sessions) = <<>> => Len(SessionsOf(sessions)) = 1

\* The workspace had no session, another workspace had one; two calls have
\* created their execution processes.
C15_Witness ==
    /\ SessionsOf(prior.sessions) = <<>> /\ prior.sessions # <<>>
    /\ Len(processes) = Len(prior.processes) + 2
    /\ Len(SessionsOf(sessions)) = 1
    /\ SessionsOf(sessions)[1].executor = "kiro"

\* The workspace had two sessions; a call has created its execution process
\* with the later of them.
C15_WitnessReuse ==
    /\ Len(SessionsOf(prior.sessions)) = 2
    /\ Len(processes) = Len(prior.processes) + 1
    /\ processes[Len(processes)].session = 2

\* C18: with the calls overlapping, a workspace that had no session has at
\* most one after any number of calls: no two calls both find none and both
\* create one.
C18_OneSessionUnderRace ==
    SessionsOf(prior.sessions) = <<>> => Len(SessionsOf(sessions)) <= 1

\* C19: with the calls overlapping, of any two execution processes the calls
\* have created, the chain of the one created later ends with the whole chain
\* of the one created earlier, unchanged and in order.
IsSuffix(a, b) ==
    /\ Len(a) <= Len(b)
    /\ SubSeq(b, Len(b) - Len(a) + 1, Len(b)) = a

C19_LaterChainKeepsEarlier ==
    \A m, n \in DOMAIN processes :
        (Len(prior.processes) < m /\ m < n)
            => IsSuffix(processes[m].chain, processes[n].chain)

\* C9 as amended: where the platform is not unix, run_kiro_setup never gets
\* past the composition of the action: it creates no session and no execution
\* process and does not provision the container, and it returns an error,
\* which is UnsupportedPlatform unless the lookup of the latest process failed
\* or the action of that process could not be decoded.
C9_NonUnixFailsWithoutEffect ==
    ~unix =>
        /\ processes = prior.processes
        /\ sessions = prior.sessions
        /\ container = prior.container
        /\ \A c \in Callers :
            /\ setup[c].pc \in {"idle", "find", "compose", "returned"}
            /\ setup[c].pc = "returned" =>
                \/ setup[c].result = "Err(UnsupportedPlatform)"
                \/ setup[c].result = "Err(Database)" /\ setup[c].latest = Nothing
                \/ /\ setup[c].result = "Err(ValidationError)"
                   /\ setup[c].latest # Nothing /\ ~Unwrap(setup[c].latest).valid

\* A call on a platform that is not unix has found a prior action and has
\* returned UnsupportedPlatform.
C9_Witness ==
    /\ ~unix
    /\ \E c \in Callers :
        /\ setup[c].pc = "returned"
        /\ setup[c].result = "Err(UnsupportedPlatform)"
        /\ setup[c].latest # Nothing

\* C9 as stated: where the platform is not unix every call returns
\* UnsupportedPlatform, whether a prior action exists or not, and has created
\* no session and no execution process and has not provisioned the container.
C9_AlwaysUnsupportedPlatform ==
    ~unix =>
        \A c \in Callers : setup[c].pc = "returned" =>
            /\ setup[c].result = "Err(UnsupportedPlatform)"
            /\ processes = prior.processes
            /\ sessions = prior.sessions
            /\ container = prior.container

====
